---------------------------- MODULE Spec2Model ----------------------------
(***************************************************************************)
(* Model of the GitHub Project Management MCP server (main.ts).            *)
(*                                                                         *)
(* The server registers eight tools.  A tool call is validated against    *)
(* the tool's zod schema, then the handler builds a GraphQL document and   *)
(* a variables object and hands both to executeGitHubGraphQL, which reads  *)
(* GITHUB_TOKEN, POSTs the request and classifies the response.            *)
(* add_item_to_project may first resolve the project id with a lookup      *)
(* call (getProjectId).                                                    *)
(*                                                                         *)
(* One invocation is followed from the arrival of the call to the          *)
(* returned envelope; the remote API is the environment and answers each   *)
(* request with any response of the set Responses.                         *)
(***************************************************************************)
EXTENDS Integers, Sequences, FiniteSets, TLC

(***************************************************************************)
(* Bounds of the model.                                                    *)
(***************************************************************************)
\* number of distinct non-empty strings a caller may pass
NumNames == 2
\* largest number of projects in the answer to the project lookup
MaxNodes == 2

NamePool == <<"a", "b", "c", "d">>
NonEmptyStrings == {NamePool[i] : i \in 1..NumNames}
\* a string parameter may be the empty string: z.string() accepts it
Strings == {""} \cup NonEmptyStrings

\* values of `first` a caller may pass: both edges of [1,100], both sides
FirstValues == {-1, 0, 1, 20, 57, 100, 101}

ToolNames == {"get_github_projects", "get_project_details",
              "get_repository_issues", "get_repository_pull_requests",
              "add_item_to_project", "update_project_item_field",
              "get_repositories", "get_project_views"}

(***************************************************************************)
(* The GraphQL documents.  A document text is the sequence of its text     *)
(* fragments; every template literal of main.ts has no ${} substitution,   *)
(* so every document is one constant fragment.                             *)
(***************************************************************************)
GetProjectIdQuery ==
    <<"query GetOrganizationProjects($org: String!, $projectName: String!) { organization(login: $org) { projectsV2(first: 10, query: $projectName) { nodes { id title } } } }">>

GetProjectsQuery ==
    <<"query GetOrganizationProjects($org: String!) { organization(login: $org) { projectsV2(first: 20) { nodes { ... } } } }">>

GetProjectDetailsQuery ==
    <<"query GetProjectDetails($id: ID!) { node(id: $id) { ... on ProjectV2 { ... } } }">>

GetRepositoryIssuesQuery ==
    <<"query GetRepositoryIssues($owner: String!, $repo: String!, $states: [IssueState!], $first: Int!) { repository(owner: $owner, name: $repo) { issues(first: $first, states: $states, orderBy: {field: CREATED_AT, direction: DESC}) { ... } } }">>

GetRepositoryPullRequestsQuery ==
    <<"query GetRepositoryPullRequests($owner: String!, $repo: String!, $states: [PullRequestState!], $first: Int!) { repository(owner: $owner, name: $repo) { pullRequests(first: $first, states: $states, orderBy: {field: CREATED_AT, direction: DESC}) { ... } } }">>

AddProjectItemMutation ==
    <<"mutation AddProjectItem($input: AddProjectV2ItemByIdInput!) { addProjectV2ItemById(input: $input) { item { id } } }">>

AddDraftIssueMutation ==
    <<"mutation AddDraftIssue($input: AddProjectV2DraftIssueInput!) { addProjectV2DraftIssue(input: $input) { projectItem { id } } }">>

UpdateProjectItemFieldMutation ==
    <<"mutation UpdateProjectItemField($input: UpdateProjectV2ItemFieldValueInput!) { updateProjectV2ItemFieldValue(input: $input) { projectV2Item { id } } }">>

GetOrgReposQuery ==
    <<"query GetOrgRepos($owner: String!, $first: Int!) { organization(login: $owner) { repositories(first: $first, orderBy: {field: UPDATED_AT, direction: DESC}) { ... } } }">>

GetUserReposQuery ==
    <<"query GetUserRepos($owner: String!, $first: Int!) { user(login: $owner) { repositories(first: $first, orderBy: {field: UPDATED_AT, direction: DESC}) { ... } } }">>

GetProjectViewsQuery ==
    <<"query GetProjectViews($id: ID!) { node(id: $id) { ... on ProjectV2 { views(first: 10) { ... } } } }">>

(***************************************************************************)
(* The zod schemas of the tools.  A parameter is described by its type,    *)
(* whether it may be omitted (.optional() or .default()), and for enums    *)
(* and numbers the accepted values.                                        *)
(***************************************************************************)
ZString == [type |-> "string", optional |-> FALSE, hasDefault |-> FALSE]
ZOptionalString == [type |-> "string", optional |-> TRUE, hasDefault |-> FALSE]
\* the same with first: z.number().min(1).max(1000)
ZFirst_Max1000 == [type |-> "number", optional |-> TRUE, hasDefault |-> TRUE,
                   default |-> 20, min |-> 1, max |-> 1000]
ZFirst == [type |-> "number", optional |-> TRUE, hasDefault |-> TRUE,
           default |-> 20, min |-> 1, max |-> 100]
ZIssueStates == [type |-> "enum", optional |-> TRUE, hasDefault |-> TRUE,
                 default |-> "OPEN", values |-> {"OPEN", "CLOSED", "ALL"}]
ZPullRequestStates == [type |-> "enum", optional |-> TRUE, hasDefault |-> TRUE,
                       default |-> "OPEN",
                       values |-> {"OPEN", "CLOSED", "MERGED", "ALL"}]
ZIsOrg == [type |-> "boolean", optional |-> TRUE, hasDefault |-> TRUE,
           default |-> FALSE]

GetGithubProjectsSchema == [organization |-> ZString]
GetProjectDetailsSchema == [projectId |-> ZString]
GetRepositoryIssuesSchema ==
    [owner |-> ZString, repo |-> ZString, states |-> ZIssueStates, first |-> ZFirst]
GetRepositoryPullRequestsSchema ==
    [owner |-> ZString, repo |-> ZString, states |-> ZPullRequestStates,
     first |-> ZFirst]
\* the same with organization: z.string().optional()
AddItemToProjectSchema_OptionalOrganization ==
    [organization |-> ZOptionalString, projectName |-> ZString,
     projectId |-> ZOptionalString, contentId |-> ZOptionalString,
     title |-> ZOptionalString, body |-> ZOptionalString]
AddItemToProjectSchema ==
    [organization |-> ZString, projectName |-> ZString,
     projectId |-> ZOptionalString, contentId |-> ZOptionalString,
     title |-> ZOptionalString, body |-> ZOptionalString]
UpdateProjectItemFieldSchema ==
    [projectId |-> ZString, itemId |-> ZString, fieldId |-> ZString,
     value |-> ZString]
GetRepositoriesSchema == [owner |-> ZString, isOrg |-> ZIsOrg, first |-> ZFirst]
GetProjectViewsSchema == [projectId |-> ZString]

Schema(tool) ==
    CASE tool = "get_github_projects" -> GetGithubProjectsSchema
      [] tool = "get_project_details" -> GetProjectDetailsSchema
      [] tool = "get_repository_issues" -> GetRepositoryIssuesSchema
      [] tool = "get_repository_pull_requests" -> GetRepositoryPullRequestsSchema
      [] tool = "add_item_to_project" -> AddItemToProjectSchema
      [] tool = "update_project_item_field" -> UpdateProjectItemFieldSchema
      [] tool = "get_repositories" -> GetRepositoriesSchema
      [] tool = "get_project_views" -> GetProjectViewsSchema

\* the values a caller may pass for a parameter of the given schema type;
\* for an enum, every state name of the remote API, valid for it or not
ValuesOf(z) ==
    CASE z.type = "string" -> Strings
      [] z.type = "number" -> FirstValues
      [] z.type = "enum" -> {"OPEN", "CLOSED", "MERGED", "ALL"}
      [] z.type = "boolean" -> BOOLEAN

\* the raw parameter mappings over the given parameter names: every name is
\* either left out or bound to a value of its type
RECURSIVE ParamSetsOver(_, _)
ParamSetsOver(schema, names) ==
    IF names = {} THEN {<<>>}
    ELSE LET k == CHOOSE n \in names : TRUE
             rest == ParamSetsOver(schema, names \ {k})
         IN  rest \cup {(k :> v) @@ p : v \in ValuesOf(schema[k]), p \in rest}

ParamSets(tool) == ParamSetsOver(Schema(tool), DOMAIN Schema(tool))

\* the issues zod reports for a raw mapping: all of them, not the first
ZodIssues(tool, p) ==
    LET schema == Schema(tool) IN
    {<<k, "invalid_type">> : k \in {n \in DOMAIN schema :
           n \notin DOMAIN p /\ ~schema[n].optional}}
    \cup {<<k, "too_small">> : k \in {n \in DOMAIN schema \cap DOMAIN p :
           schema[n].type = "number" /\ p[n] < schema[n].min}}
    \cup {<<k, "too_big">> : k \in {n \in DOMAIN schema \cap DOMAIN p :
           schema[n].type = "number" /\ p[n] > schema[n].max}}
    \cup {<<k, "invalid_enum_value">> : k \in {n \in DOMAIN schema \cap DOMAIN p :
           schema[n].type = "enum" /\ p[n] \notin schema[n].values}}

\* the parsed arguments the handler receives: defaults filled in, an omitted
\* optional parameter stays undefined (outside the domain)
ZodParse(tool, p) ==
    LET schema == Schema(tool)
        defaulted == {n \in DOMAIN schema : n \notin DOMAIN p /\ schema[n].hasDefault}
    IN  [n \in DOMAIN p \cup defaulted |->
            IF n \in DOMAIN p THEN p[n] ELSE schema[n].default]

\* JavaScript truthiness of an optional string argument: undefined and ""
\* are falsy
Truthy(a, k) == k \in DOMAIN a /\ a[k] /= ""


(***************************************************************************)
(* The remote API.  A response is a network failure (fetch rejects) or an  *)
(* HTTP response with a status, the raw text of its body (read only when   *)
(* the status is not 2xx) and the value its body parses to (read only      *)
(* when the status is 2xx; parses = FALSE when the body is not JSON).      *)
(* The parsed value records the parts of a GraphQL envelope the code       *)
(* looks at: data, data.organization, data.organization.projectsV2.nodes   *)
(* and the presence of an errors array.                                    *)
(***************************************************************************)
ProjectIds == {"PVT_1", "PVT_2"}

RECURSIVE SeqsUpTo(_, _)
SeqsUpTo(S, n) ==
    IF n = 0 THEN {<<>>}
    ELSE LET shorter == SeqsUpTo(S, n - 1)
         IN  shorter \cup {Append(q, x) : q \in shorter, x \in S}

\* {"errors":[...]} and no data
ErrorsOnlyBody == [data |-> "undefined", organization |-> "undefined",
                   nodes |-> <<>>, errors |-> TRUE]
\* {"data":null,"errors":[...]}
DataNullBody == [data |-> "null", organization |-> "undefined",
                 nodes |-> <<>>, errors |-> TRUE]
\* {"data":{"organization":null},"errors":[...]}: no such organization
OrganizationNullBody == [data |-> "object", organization |-> "null",
                         nodes |-> <<>>, errors |-> TRUE]
\* {"data":{...}} with a payload other than organization
OtherDataBody == [data |-> "object", organization |-> "undefined",
                  nodes |-> <<>>, errors |-> FALSE]
\* {"data":{"organization":{"projectsV2":{"nodes":[{"id":...},...]}}}}
ProjectsBody(ids) == [data |-> "object", organization |-> "object",
                      nodes |-> ids, errors |-> FALSE]

JsonBodies ==
    {ErrorsOnlyBody, DataNullBody, OrganizationNullBody, OtherDataBody}
    \cup {ProjectsBody(ids) : ids \in SeqsUpTo(ProjectIds, MaxNodes)}

OkStatuses == {200}
ErrorStatuses == {401, 500}
ErrorTexts == {"", "Bad credentials"}

NetworkFailure == [net |-> "failed", status |-> 0, text |-> "",
                   parses |-> FALSE, json |-> OtherDataBody]

Responses ==
    {NetworkFailure}
    \cup {[net |-> "ok", status |-> s, text |-> t, parses |-> FALSE,
           json |-> OtherDataBody] : s \in ErrorStatuses, t \in ErrorTexts}
    \cup {[net |-> "ok", status |-> s, text |-> "", parses |-> TRUE,
           json |-> j] : s \in OkStatuses, j \in JsonBodies}
    \cup {[net |-> "ok", status |-> s, text |-> "", parses |-> FALSE,
           json |-> OtherDataBody] : s \in OkStatuses}

\* response.ok of the fetch API
ResponseOk(r) == r.status >= 200 /\ r.status <= 299

\* JSON.stringify of a parsed body, as the sequence of its tokens
RECURSIVE StringifyNodes(_)
StringifyNodes(ids) ==
    IF ids = <<>> THEN <<>>
    ELSE <<"{\"id\":", Head(ids), "}">> \o StringifyNodes(Tail(ids))

JSONstringify(j) ==
    <<"{">>
    \o (CASE j.data = "undefined" -> <<>>
          [] j.data = "null" -> <<"\"data\":null">>
          [] j.data = "object" ->
               <<"\"data\":{">>
               \o (CASE j.organization = "undefined" -> <<"...">>
                     [] j.organization = "null" -> <<"\"organization\":null">>
                     [] j.organization = "object" ->
                          <<"\"organization\":{\"projectsV2\":{\"nodes\":[">>
                          \o StringifyNodes(j.nodes) \o <<"]}}">>)
               \o <<"}">>)
    \o (IF j.errors THEN <<"\"errors\":[...]">> ELSE <<>>)
    \o <<"}">>

(***************************************************************************)
(* Errors and results.                                                     *)
(***************************************************************************)
MakeError(name, message) ==
    [name |-> name, message |-> message, status |-> 0, body |-> "", issues |-> {}]

\* throw new Error("GITHUB_TOKEN environment variable is not set")
MissingTokenError == MakeError("Error", "GITHUB_TOKEN environment variable is not set")
\* throw new Error(`GitHub API error (${response.status}): ${errorText}`)
GitHubApiError(r) ==
    [name |-> "Error", message |-> "GitHub API error", status |-> r.status,
     body |-> r.text, issues |-> {}]
\* throw new Error("Either contentId or title must be provided")
EitherRequiredError == MakeError("Error", "Either contentId or title must be provided")
\* reading a property of undefined or null
PropertyTypeError == MakeError("TypeError", "Cannot read properties of undefined or null")
\* fetch rejects
FetchFailedError == MakeError("TypeError", "fetch failed")
\* response.json() rejects
JsonSyntaxError == MakeError("SyntaxError", "Unexpected token in JSON")
\* the schema rejects the arguments; the handler is not run
ZodError(issues) ==
    [name |-> "ZodError", message |-> "Invalid arguments", status |-> 0,
     body |-> "", issues |-> issues]

NoResult == [state |-> "pending"]
Success(text) == [state |-> "success", text |-> text]
Failure(error) == [state |-> "failure", error |-> error]

(***************************************************************************)
(* State.                                                                  *)
(***************************************************************************)
VARIABLES
    env,        \* the process environment: GITHUB_TOKEN set or not
    pc,         \* "idle", "awaitLookup", "awaitCall" or "done"
    tool,       \* the tool being invoked
    params,     \* the raw parameter mapping of the invocation
    requests,   \* the requests this invocation has sent, in order
    responses,  \* the responses this invocation has received, in order
    result      \* the outcome of the invocation

vars == <<env, pc, tool, params, requests, responses, result>>

Environments == {<<>>, [GITHUB_TOKEN |-> ""], [GITHUB_TOKEN |-> "ghp_secret"]}

Init ==
    /\ env \in Environments
    /\ pc = "idle"
    /\ tool = "none"
    /\ params = <<>>
    /\ requests = <<>>
    /\ responses = <<>>
    /\ result = NoResult

(***************************************************************************)
(* executeGitHubGraphQL, in two parts: up to the await of fetch, and the   *)
(* classification of the response.                                         *)
(***************************************************************************)
\* the handler throws: the invocation fails
Throw(error) ==
    /\ result' = Failure(error)
    /\ pc' = "done"

\* the same with the token test  token === undefined
executeGitHubGraphQL_UndefinedOnly(query, variables, await) ==
    IF "GITHUB_TOKEN" \notin DOMAIN env
    THEN /\ Throw(MissingTokenError)
         /\ UNCHANGED requests
    ELSE /\ requests' = Append(requests,
                [url |-> "https://api.github.com/graphql",
                 method |-> "POST",
                 authorization |-> <<"Bearer ", env.GITHUB_TOKEN>>,
                 query |-> query,
                 variables |-> variables])
         /\ pc' = await
         /\ UNCHANGED result

executeGitHubGraphQL(query, variables, await) ==
    IF ~Truthy(env, "GITHUB_TOKEN")
    THEN /\ Throw(MissingTokenError)
         /\ UNCHANGED requests
    ELSE /\ requests' = Append(requests,
                [url |-> "https://api.github.com/graphql",
                 method |-> "POST",
                 authorization |-> <<"Bearer ", env.GITHUB_TOKEN>>,
                 query |-> query,
                 variables |-> variables])
         /\ pc' = await
         /\ UNCHANGED result

\* the same without the test of response.ok
ExecuteOutcome_NoStatusCheck(r) ==
    IF r.net = "failed" THEN [ok |-> FALSE, error |-> FetchFailedError]
    ELSE IF ~r.parses THEN [ok |-> FALSE, error |-> JsonSyntaxError]
    ELSE [ok |-> TRUE, data |-> r.json]

\* what executeGitHubGraphQL does with the response: return the parsed body
\* or throw
ExecuteOutcome(r) ==
    IF r.net = "failed" THEN [ok |-> FALSE, error |-> FetchFailedError]
    ELSE IF ~ResponseOk(r) THEN [ok |-> FALSE, error |-> GitHubApiError(r)]
    ELSE IF ~r.parses THEN [ok |-> FALSE, error |-> JsonSyntaxError]
    ELSE [ok |-> TRUE, data |-> r.json]

\* data.data.organization.projectsV2.nodes[0].id
GetProjectIdResult(data) ==
    IF data.data /= "object" \/ data.organization /= "object" \/ data.nodes = <<>>
    THEN [ok |-> FALSE, error |-> PropertyTypeError]
    ELSE [ok |-> TRUE, id |-> data.nodes[1]]

\* a tool call arrives
Call(t, p) ==
    /\ tool' = t
    /\ params' = p
    /\ UNCHANGED <<env, responses>>

\* the arguments do not pass the schema
Reject(issues) ==
    /\ Throw(ZodError(issues))
    /\ UNCHANGED requests


(***************************************************************************)
(* The tool handlers, each up to its first await.                          *)
(***************************************************************************)
get_github_projects ==
    /\ pc = "idle"
    /\ \E p \in ParamSets("get_github_projects") :
           /\ Call("get_github_projects", p)
           /\ IF ZodIssues("get_github_projects", p) /= {}
              THEN Reject(ZodIssues("get_github_projects", p))
              ELSE LET a == ZodParse("get_github_projects", p)
                   IN  executeGitHubGraphQL(GetProjectsQuery,
                           [org |-> a.organization], "awaitCall")

get_project_details ==
    /\ pc = "idle"
    /\ \E p \in ParamSets("get_project_details") :
           /\ Call("get_project_details", p)
           /\ IF ZodIssues("get_project_details", p) /= {}
              THEN Reject(ZodIssues("get_project_details", p))
              ELSE LET a == ZodParse("get_project_details", p)
                   IN  executeGitHubGraphQL(GetProjectDetailsQuery,
                           [id |-> a.projectId], "awaitCall")

\* states === "ALL" ? ["OPEN", "CLOSED"] : [states]
IssueStates(states) ==
    IF states = "ALL" THEN <<"OPEN", "CLOSED">> ELSE <<states>>

get_repository_issues ==
    /\ pc = "idle"
    /\ \E p \in ParamSets("get_repository_issues") :
           /\ Call("get_repository_issues", p)
           /\ IF ZodIssues("get_repository_issues", p) /= {}
              THEN Reject(ZodIssues("get_repository_issues", p))
              ELSE LET a == ZodParse("get_repository_issues", p)
                   IN  executeGitHubGraphQL(GetRepositoryIssuesQuery,
                           [owner |-> a.owner, repo |-> a.repo,
                            states |-> IssueStates(a.states), first |-> a.first],
                           "awaitCall")

\* the same with the expansion of the issues handler
PrStates_AsIssues(states) ==
    IF states = "ALL" THEN <<"OPEN", "CLOSED">> ELSE <<states>>

\* states === "ALL" ? ["OPEN", "CLOSED", "MERGED"] : [states]
PrStates(states) ==
    IF states = "ALL" THEN <<"OPEN", "CLOSED", "MERGED">> ELSE <<states>>

get_repository_pull_requests ==
    /\ pc = "idle"
    /\ \E p \in ParamSets("get_repository_pull_requests") :
           /\ Call("get_repository_pull_requests", p)
           /\ IF ZodIssues("get_repository_pull_requests", p) /= {}
              THEN Reject(ZodIssues("get_repository_pull_requests", p))
              ELSE LET a == ZodParse("get_repository_pull_requests", p)
                   IN  executeGitHubGraphQL(GetRepositoryPullRequestsQuery,
                           [owner |-> a.owner, repo |-> a.repo,
                            states |-> PrStates(a.states), first |-> a.first],
                           "awaitCall")

\* the same with the title tested before the contentId
AddItemMutation_TitleFirst(a, projectId) ==
    IF Truthy(a, "title")
    THEN [throws |-> FALSE,
          mutation |-> AddDraftIssueMutation,
          variables |-> [input |-> [projectId |-> projectId,
                                    title |-> a.title,
                                    body |-> IF Truthy(a, "body") THEN a.body ELSE ""]]]
    ELSE IF Truthy(a, "contentId")
    THEN [throws |-> FALSE,
          mutation |-> AddProjectItemMutation,
          variables |-> [input |-> [projectId |-> projectId,
                                    contentId |-> a.contentId]]]
    ELSE [throws |-> TRUE, error |-> EitherRequiredError]

\* the if (contentId) / else if (title) / else of add_item_to_project, with
\* the project id the handler holds at that point
AddItemMutation(a, projectId) ==
    IF Truthy(a, "contentId")
    THEN [throws |-> FALSE,
          mutation |-> AddProjectItemMutation,
          variables |-> [input |-> [projectId |-> projectId,
                                    contentId |-> a.contentId]]]
    ELSE IF Truthy(a, "title")
    THEN [throws |-> FALSE,
          mutation |-> AddDraftIssueMutation,
          variables |-> [input |-> [projectId |-> projectId,
                                    title |-> a.title,
                                    body |-> IF Truthy(a, "body") THEN a.body ELSE ""]]]
    ELSE [throws |-> TRUE, error |-> EitherRequiredError]

\* add_item_to_project from the point where projectId is known
AddItemWithProject(a, projectId) ==
    LET m == AddItemMutation(a, projectId)
    IN  IF m.throws
        THEN Throw(m.error) /\ UNCHANGED requests
        ELSE executeGitHubGraphQL(m.mutation, m.variables, "awaitCall")

\* the same with the organization written into the document text
getProjectId_Interpolated(organization, projectName) ==
    executeGitHubGraphQL(
        <<"query GetOrganizationProjects($projectName: String!) { organization(login: \"",
          organization,
          "\") { projectsV2(first: 10, query: $projectName) { nodes { id title } } } }">>,
        [projectName |-> projectName], "awaitLookup")

\* getProjectId up to its await
getProjectId(organization, projectName) ==
    executeGitHubGraphQL(GetProjectIdQuery,
        [org |-> organization, projectName |-> projectName], "awaitLookup")

\* the same without the test if (!projectId): the lookup is always made
add_item_to_project_AlwaysLookup ==
    /\ pc = "idle"
    /\ \E p \in ParamSets("add_item_to_project") :
           /\ Call("add_item_to_project", p)
           /\ IF ZodIssues("add_item_to_project", p) /= {}
              THEN Reject(ZodIssues("add_item_to_project", p))
              ELSE LET a == ZodParse("add_item_to_project", p)
                   IN  getProjectId(a.organization, a.projectName)

add_item_to_project ==
    /\ pc = "idle"
    /\ \E p \in ParamSets("add_item_to_project") :
           /\ Call("add_item_to_project", p)
           /\ IF ZodIssues("add_item_to_project", p) /= {}
              THEN Reject(ZodIssues("add_item_to_project", p))
              ELSE LET a == ZodParse("add_item_to_project", p)
                   IN  IF ~Truthy(a, "projectId")
                       THEN getProjectId(a.organization, a.projectName)
                       ELSE AddItemWithProject(a, a.projectId)

update_project_item_field ==
    /\ pc = "idle"
    /\ \E p \in ParamSets("update_project_item_field") :
           /\ Call("update_project_item_field", p)
           /\ IF ZodIssues("update_project_item_field", p) /= {}
              THEN Reject(ZodIssues("update_project_item_field", p))
              ELSE LET a == ZodParse("update_project_item_field", p)
                   IN  executeGitHubGraphQL(UpdateProjectItemFieldMutation,
                           [input |-> [projectId |-> a.projectId, itemId |-> a.itemId,
                                       fieldId |-> a.fieldId, value |-> a.value]],
                           "awaitCall")

\* isOrg ? GetOrgRepos : GetUserRepos
RepositoriesQuery(isOrg) ==
    IF isOrg THEN GetOrgReposQuery ELSE GetUserReposQuery

get_repositories ==
    /\ pc = "idle"
    /\ \E p \in ParamSets("get_repositories") :
           /\ Call("get_repositories", p)
           /\ IF ZodIssues("get_repositories", p) /= {}
              THEN Reject(ZodIssues("get_repositories", p))
              ELSE LET a == ZodParse("get_repositories", p)
                   IN  executeGitHubGraphQL(RepositoriesQuery(a.isOrg),
                           [owner |-> a.owner, first |-> a.first], "awaitCall")

get_project_views ==
    /\ pc = "idle"
    /\ \E p \in ParamSets("get_project_views") :
           /\ Call("get_project_views", p)
           /\ IF ZodIssues("get_project_views", p) /= {}
              THEN Reject(ZodIssues("get_project_views", p))
              ELSE LET a == ZodParse("get_project_views", p)
                   IN  executeGitHubGraphQL(GetProjectViewsQuery,
                           [id |-> a.projectId], "awaitCall")

(***************************************************************************)
(* The continuations after an await.                                       *)
(***************************************************************************)
\* the lookup of getProjectId is answered: getProjectId returns or throws,
\* and add_item_to_project goes on to its mutation
GetProjectIdReturns ==
    /\ pc = "awaitLookup"
    /\ \E r \in Responses :
        /\ responses' = Append(responses, r)
        /\ LET out == ExecuteOutcome(r)
           IN  IF ~out.ok
               THEN Throw(out.error) /\ UNCHANGED requests
               ELSE LET id == GetProjectIdResult(out.data)
                    IN  IF ~id.ok
                        THEN Throw(id.error) /\ UNCHANGED requests
                        ELSE AddItemWithProject(ZodParse(tool, params), id.id)
    /\ UNCHANGED <<env, tool, params>>

\* the call of a handler is answered: the handler wraps the parsed body in
\* the envelope { content: [{ type: "text", text: JSON.stringify(data) }] }
ExecuteReturns ==
    /\ pc = "awaitCall"
    /\ \E r \in Responses :
        /\ responses' = Append(responses, r)
        /\ LET out == ExecuteOutcome(r)
           IN  IF ~out.ok
               THEN Throw(out.error)
               ELSE /\ result' = Success(JSONstringify(out.data))
                    /\ pc' = "done"
    /\ UNCHANGED <<env, tool, params, requests>>

\* the envelope is handed to the transport; the server waits for the next
\* call and keeps nothing of the last one
NextRequest ==
    /\ pc = "done"
    /\ pc' = "idle"
    /\ tool' = "none"
    /\ params' = <<>>
    /\ requests' = <<>>
    /\ responses' = <<>>
    /\ result' = NoResult
    /\ UNCHANGED env

Next ==
    \/ get_github_projects
    \/ get_project_details
    \/ get_repository_issues
    \/ get_repository_pull_requests
    \/ add_item_to_project
    \/ update_project_item_field
    \/ get_repositories
    \/ get_project_views
    \/ GetProjectIdReturns
    \/ ExecuteReturns
    \/ NextRequest

Spec == Init /\ [][Next]_vars

TypeOK ==
    /\ env \in Environments
    /\ pc \in {"idle", "awaitLookup", "awaitCall", "done"}
    /\ tool \in ToolNames \cup {"none"}
    /\ Len(requests) <= 2
    /\ Len(responses) <= Len(requests)
    /\ result.state \in {"pending", "success", "failure"}


(***************************************************************************)
(* Vocabulary of the properties.                                           *)
(***************************************************************************)
Range(q) == {q[i] : i \in 1..Len(q)}
Supplied(k) == k \in DOMAIN params
Ended == pc = "done"
Failed == result.state = "failure"
FailedWith(e) == result.state = "failure" /\ result.error = e
TokenSet == Truthy(env, "GITHUB_TOKEN")
SchemaValid == tool \in ToolNames /\ ZodIssues(tool, params) = {}
Non2xx(r) == r.net = "ok" /\ r.status \notin 200..299
Is2xx(r) == r.net = "ok" /\ r.status \in 200..299
MutationDocuments == {AddProjectItemMutation, AddDraftIssueMutation}

\* valid on every reading: the arguments pass the schema and
\* add_item_to_project has a non-empty contentId or title
ValidInvocation ==
    /\ SchemaValid
    /\ tool = "add_item_to_project"
          => Truthy(params, "contentId") \/ Truthy(params, "title")

(***************************************************************************)
(* C1                                                                      *)
(***************************************************************************)
\* C1 as stated: whenever GITHUB_TOKEN is absent or empty, an invocation of
\* any tool with any parameter set ends in the missing-credential error and
\* sends no request.
C1_AnyParameterSetMissingCredential ==
    (tool \in ToolNames /\ ~TokenSet)
        => /\ requests = <<>>
           /\ Ended => FailedWith(MissingTokenError)

\* the invocation gets as far as executeGitHubGraphQL: the arguments pass
\* the schema, and add_item_to_project called with a non-empty projectId
\* also has a non-empty contentId or title
ReachesExecutor ==
    /\ SchemaValid
    /\ ~(/\ tool = "add_item_to_project"
         /\ Truthy(params, "projectId")
         /\ ~Truthy(params, "contentId")
         /\ ~Truthy(params, "title"))

\* C1 as amended: whenever GITHUB_TOKEN is absent or empty, an invocation
\* of any tool with any parameter set sends no request and ends in failure;
\* the failure is the missing-credential error when the invocation reaches
\* the executor, and a validation error otherwise.
C1_MissingCredentialNoRequest ==
    (tool \in ToolNames /\ ~TokenSet)
        => /\ requests = <<>>
           /\ Ended
           /\ Failed
           /\ ReachesExecutor => FailedWith(MissingTokenError)
           /\ ~ReachesExecutor => result.error.name = "ZodError"
                                  \/ result.error = EitherRequiredError

C1_Witness ==
    /\ tool = "add_item_to_project"
    /\ "GITHUB_TOKEN" \in DOMAIN env /\ env.GITHUB_TOKEN = ""
    /\ ~Supplied("projectId")
    /\ Ended
    /\ FailedWith(MissingTokenError)

(***************************************************************************)
(* C2                                                                      *)
(***************************************************************************)
\* C2: an invocation of add_item_to_project with neither contentId nor
\* title supplied (projectId supplied or not) fails with the
\* invalid-parameter error and sends no request, neither lookup nor
\* mutation.  Stated for otherwise valid arguments and GITHUB_TOKEN set.
C2_NeitherFailsBeforeAnyRequest ==
    (/\ tool = "add_item_to_project"
     /\ SchemaValid
     /\ TokenSet
     /\ ~Supplied("contentId")
     /\ ~Supplied("title"))
        => /\ requests = <<>>
           /\ Ended
           /\ FailedWith(EitherRequiredError)

(***************************************************************************)
(* C3                                                                      *)
(***************************************************************************)
\* a dedicated not-found error; no throw of main.ts produces one
IsNotFoundError(e) == e.name = "Error" /\ e.message = "NotFound"

\* C3: an invocation of add_item_to_project without projectId, with
\* organization, projectName and a contentId or title, sends exactly one
\* lookup and sends it before the mutation; when the lookup answers with
\* zero projects the invocation fails with the NotFound error and sends no
\* mutation.
C3_LookupThenMutationOrNotFound ==
    (/\ tool = "add_item_to_project"
     /\ SchemaValid
     /\ TokenSet
     /\ ~Supplied("projectId")
     /\ Truthy(params, "contentId") \/ Truthy(params, "title"))
        => /\ Len(requests) >= 1
           /\ requests[1].query = GetProjectIdQuery
           /\ \A i \in 2..Len(requests) : requests[i].query \in MutationDocuments
           /\ (/\ Len(responses) >= 1
               /\ Is2xx(responses[1])
               /\ responses[1].parses
               /\ responses[1].json = ProjectsBody(<<>>))
                  => /\ Len(requests) = 1
                     /\ Ended
                     /\ Failed
                     /\ IsNotFoundError(result.error)

(***************************************************************************)
(* C4                                                                      *)
(***************************************************************************)
\* the requests of the invocation that are not the project lookup
PrimaryRequests == {r \in Range(requests) : r.query /= GetProjectIdQuery}

\* C4 as stated: when add_item_to_project is called with both contentId and
\* title supplied, the primary call is the addProjectV2ItemById mutation
\* with variables holding only projectId and contentId.
C4_BothSuppliedLinksContent ==
    (tool = "add_item_to_project" /\ Supplied("contentId") /\ Supplied("title"))
        => \A r \in PrimaryRequests :
              /\ r.query = AddProjectItemMutation
              /\ DOMAIN r.variables = {"input"}
              /\ DOMAIN r.variables.input = {"projectId", "contentId"}

\* C4 as amended: when add_item_to_project is called with a non-empty
\* contentId and with title supplied, the primary call is the
\* addProjectV2ItemById mutation with variables holding only projectId and
\* contentId (the contentId of the call); the draft-issue mutation is not
\* sent.
C4_NonEmptyContentIdLinksContent ==
    (tool = "add_item_to_project" /\ Truthy(params, "contentId") /\ Supplied("title"))
        => \A r \in PrimaryRequests :
              /\ r.query = AddProjectItemMutation
              /\ r.query /= AddDraftIssueMutation
              /\ DOMAIN r.variables = {"input"}
              /\ DOMAIN r.variables.input = {"projectId", "contentId"}
              /\ r.variables.input.contentId = params.contentId

C4_Witness ==
    /\ tool = "add_item_to_project"
    /\ Truthy(params, "contentId")
    /\ Truthy(params, "title")
    /\ Supplied("body")
    /\ Len(requests) = 2
    /\ requests[2].query = AddProjectItemMutation

(***************************************************************************)
(* C5                                                                      *)
(***************************************************************************)
\* C5: get_repository_issues transmits states {OPEN, CLOSED} for "ALL" and
\* the one given state otherwise ({OPEN} when states is omitted);
\* get_repository_pull_requests transmits {OPEN, CLOSED, MERGED} for "ALL"
\* and the one given state otherwise; "ALL" is never transmitted.
C5_StatesExpansion ==
    /\ tool = "get_repository_issues" =>
          \A r \in Range(requests) :
              /\ Range(r.variables.states) =
                    IF ~Supplied("states") THEN {"OPEN"}
                    ELSE IF params.states = "ALL" THEN {"OPEN", "CLOSED"}
                    ELSE {params.states}
              /\ "ALL" \notin Range(r.variables.states)
    /\ tool = "get_repository_pull_requests" =>
          \A r \in Range(requests) :
              /\ Range(r.variables.states) =
                    IF ~Supplied("states") THEN {"OPEN"}
                    ELSE IF params.states = "ALL" THEN {"OPEN", "CLOSED", "MERGED"}
                    ELSE {params.states}
              /\ "ALL" \notin Range(r.variables.states)

C5_Witness ==
    /\ tool = "get_repository_pull_requests"
    /\ Supplied("states") /\ params.states = "ALL"
    /\ Len(requests) = 1
    /\ Ended /\ result.state = "success"

(***************************************************************************)
(* C6                                                                      *)
(***************************************************************************)
ToolsWithFirst == {"get_repository_issues", "get_repository_pull_requests",
                   "get_repositories"}

\* C6: for the three tools with a first parameter, a first outside [1,100]
\* fails with the invalid-parameter error and sends no request; an omitted
\* first is transmitted as 20; a first inside [1,100] is transmitted as is.
C6_FirstRangeAndDefault ==
    tool \in ToolsWithFirst =>
        /\ (Supplied("first") /\ (params.first < 1 \/ params.first > 100))
              => /\ requests = <<>>
                 /\ Ended
                 /\ Failed
                 /\ result.error.name = "ZodError"
                 /\ \E c \in {"too_small", "too_big"} :
                        <<"first", c>> \in result.error.issues
        /\ ~Supplied("first")
              => \A r \in Range(requests) : r.variables.first = 20
        /\ (Supplied("first") /\ params.first >= 1 /\ params.first <= 100)
              => \A r \in Range(requests) : r.variables.first = params.first

C6_Witness ==
    /\ tool = "get_repositories"
    /\ ~Supplied("first")
    /\ Len(requests) = 1
    /\ requests[1].variables.first = 20

(***************************************************************************)
(* C7                                                                      *)
(***************************************************************************)
\* the required parameters of the interface table
InterfaceRequired(t) ==
    CASE t = "get_github_projects" -> {"organization"}
      [] t = "get_project_details" -> {"projectId"}
      [] t = "get_repository_issues" -> {"owner", "repo"}
      [] t = "get_repository_pull_requests" -> {"owner", "repo"}
      [] t = "add_item_to_project" -> {"organization", "projectName"}
      [] t = "update_project_item_field" -> {"projectId", "itemId", "fieldId", "value"}
      [] t = "get_repositories" -> {"owner"}
      [] t = "get_project_views" -> {"projectId"}

\* C7: for every tool and every required parameter of the interface table,
\* an invocation that omits the parameter fails with the missing-parameter
\* error (zod's issue for the parameter) and sends no request.
C7_MissingRequiredParameter ==
    tool \in ToolNames =>
        \A k \in InterfaceRequired(tool) :
            ~Supplied(k)
               => /\ requests = <<>>
                  /\ Ended
                  /\ Failed
                  /\ result.error.name = "ZodError"
                  /\ <<k, "invalid_type">> \in result.error.issues

C7_Witness ==
    /\ tool = "add_item_to_project"
    /\ Truthy(params, "projectId")
    /\ Truthy(params, "contentId")
    /\ Supplied("projectName")
    /\ ~Supplied("organization")
    /\ TokenSet
    /\ Ended
    /\ Failed

(***************************************************************************)
(* C8                                                                      *)
(***************************************************************************)
\* C8: when a request is answered with a non-2xx status, the invocation
\* ends in failure with the error that carries that status and the raw
\* body; no success envelope is produced and no request follows the failed
\* one.
C8_Non2xxIsUpstreamError ==
    \A i \in 1..Len(responses) :
        Non2xx(responses[i])
           => /\ i = Len(requests)
              /\ Ended
              /\ result.state /= "success"
              /\ Failed
              /\ result.error.message = "GitHub API error"
              /\ result.error.status = responses[i].status
              /\ result.error.body = responses[i].text

C8_Witness ==
    /\ tool = "add_item_to_project"
    /\ Len(responses) = 2
    /\ responses[2].status = 401
    /\ responses[2].text = "Bad credentials"
    /\ Failed

(***************************************************************************)
(* C9                                                                      *)
(***************************************************************************)
\* C9: when a request, the project lookup included, is answered with a 2xx
\* status and a body with an errors array and no data, the invocation is
\* not a failure and ends in the success envelope whose text is that body
\* serialized.  Stated for invocations that are valid on every reading:
\* arguments that pass the schema, with a non-empty contentId or title.
C9_ErrorsOnlyBodyPassedThrough ==
    \A i \in 1..Len(responses) :
        (/\ ValidInvocation
         /\ Is2xx(responses[i])
         /\ responses[i].parses
         /\ responses[i].json = ErrorsOnlyBody)
           => /\ ~Failed
              /\ Ended => result = Success(JSONstringify(ErrorsOnlyBody))

(***************************************************************************)
(* C10                                                                     *)
(***************************************************************************)
\* the document texts sent so far
SentDocuments == [i \in 1..Len(requests) |-> requests[i].query]

IsPrefix(q, full) == Len(q) <= Len(full) /\ \A i \in 1..Len(q) : q[i] = full[i]

\* the documents of a tool as a function of nothing but the tool, isOrg and
\* three flags for projectId, contentId and title
DocumentsOf(t, isOrg, hasProjectId, hasContentId, hasTitle) ==
    CASE t = "get_github_projects" -> <<GetProjectsQuery>>
      [] t = "get_project_details" -> <<GetProjectDetailsQuery>>
      [] t = "get_repository_issues" -> <<GetRepositoryIssuesQuery>>
      [] t = "get_repository_pull_requests" -> <<GetRepositoryPullRequestsQuery>>
      [] t = "update_project_item_field" -> <<UpdateProjectItemFieldMutation>>
      [] t = "get_repositories" ->
            IF isOrg THEN <<GetOrgReposQuery>> ELSE <<GetUserReposQuery>>
      [] t = "get_project_views" -> <<GetProjectViewsQuery>>
      [] t = "add_item_to_project" ->
            (IF hasProjectId THEN <<>> ELSE <<GetProjectIdQuery>>)
            \o (IF hasContentId THEN <<AddProjectItemMutation>>
                ELSE IF hasTitle THEN <<AddDraftIssueMutation>>
                ELSE <<>>)

IsOrgGiven == Supplied("isOrg") /\ params.isOrg

\* C10 as stated: the documents an invocation sends depend only on the
\* tool, on isOrg and on which of projectId, contentId and title are
\* supplied, never on the values of string or numeric parameters.
C10_DocumentsBySuppliedParameters ==
    ValidInvocation =>
        IsPrefix(SentDocuments,
                 DocumentsOf(tool, IsOrgGiven, Supplied("projectId"),
                             Supplied("contentId"), Supplied("title")))

\* C10 as amended: the documents an invocation sends depend only on the
\* tool, on isOrg and on which of projectId, contentId and title are
\* supplied and non-empty; no other value of a string or numeric parameter
\* changes a document text, and every document is one constant text.
C10_DocumentsByNonEmptyParameters ==
    SchemaValid =>
        /\ IsPrefix(SentDocuments,
                    DocumentsOf(tool, IsOrgGiven, Truthy(params, "projectId"),
                                Truthy(params, "contentId"), Truthy(params, "title")))
        /\ Ended /\ result.state = "success" =>
              SentDocuments =
                  DocumentsOf(tool, IsOrgGiven, Truthy(params, "projectId"),
                              Truthy(params, "contentId"), Truthy(params, "title"))

C10_Witness ==
    /\ tool = "add_item_to_project"
    /\ ~Supplied("projectId")
    /\ Supplied("organization") /\ params.organization = "b"
    /\ Supplied("projectName") /\ params.projectName = "a"
    /\ Supplied("title") /\ params.title = "b"
    /\ ~Supplied("contentId")
    /\ Len(requests) = 2
    /\ requests[1].variables.org = "b"
    /\ requests[2].variables.input.title = "b"
    /\ result.state = "success"


(***************************************************************************)
(* C11                                                                     *)
(***************************************************************************)
\* the answer lets executeGitHubGraphQL return: 2xx with a JSON body
ReturnedSuccessfully(r) == Is2xx(r) /\ r.parses

\* the requests of the invocation that are the project lookup
LookupRequests == {i \in 1..Len(requests) : requests[i].query = GetProjectIdQuery}

\* at most two requests, the second only after the first was answered
\* successfully, and nothing sent after an answer that is a failure
SequentialNoRetry ==
    /\ Len(requests) <= 2
    /\ Len(responses) <= Len(requests)
    /\ Len(requests) <= Len(responses) + 1
    /\ Len(requests) = 2 => ReturnedSuccessfully(responses[1])
    /\ \A i \in 1..Len(responses) :
          ~ReturnedSuccessfully(responses[i])
             => i = Len(requests) /\ Ended /\ Failed
    /\ Failed => Ended /\ Len(responses) = Len(requests)

\* C11 as stated: every invocation of a sequence sends at most two
\* requests, strictly one after the other; two are sent only by
\* add_item_to_project called without projectId (lookup, then mutation);
\* when projectId is supplied no lookup is sent and the mutation transmits
\* the supplied projectId; every other valid invocation (GITHUB_TOKEN set)
\* sends exactly one request; nothing is re-sent after a failure.
C11_TwoRequestsOnlyWithoutProjectId ==
    tool \in ToolNames =>
        /\ SequentialNoRetry
        /\ Len(requests) = 2 =>
              /\ tool = "add_item_to_project"
              /\ ~Supplied("projectId")
              /\ requests[1].query = GetProjectIdQuery
              /\ requests[2].query \in MutationDocuments
        /\ (tool = "add_item_to_project" /\ Supplied("projectId")) =>
              /\ LookupRequests = {}
              /\ \A r \in Range(requests) :
                    r.variables.input.projectId = params.projectId
        /\ (/\ ValidInvocation
            /\ TokenSet
            /\ ~(tool = "add_item_to_project" /\ ~Supplied("projectId")))
              => Len(requests) = 1

\* C11 as amended: the same with "projectId supplied" read as "a non-empty
\* projectId supplied": two requests are sent only by add_item_to_project
\* called without a non-empty projectId (lookup, then mutation, which
\* transmits the first project id of the lookup's answer); with a non-empty
\* projectId no lookup is sent and the mutation transmits that projectId;
\* every other valid invocation with GITHUB_TOKEN set sends exactly one
\* request, and a valid add_item_to_project without a non-empty projectId
\* that ends in success has sent exactly two.
C11_TwoRequestsOnlyWithoutNonEmptyProjectId ==
    tool \in ToolNames =>
        /\ SequentialNoRetry
        /\ Len(requests) = 2 =>
              /\ tool = "add_item_to_project"
              /\ ~Truthy(params, "projectId")
              /\ requests[1].query = GetProjectIdQuery
              /\ requests[2].query \in MutationDocuments
              /\ requests[2].variables.input.projectId = responses[1].json.nodes[1]
        /\ (tool = "add_item_to_project" /\ Truthy(params, "projectId")) =>
              /\ LookupRequests = {}
              /\ \A r \in Range(requests) :
                    r.variables.input.projectId = params.projectId
        /\ (/\ ValidInvocation
            /\ TokenSet
            /\ ~(tool = "add_item_to_project" /\ ~Truthy(params, "projectId")))
              => Len(requests) = 1
        /\ (/\ ValidInvocation
            /\ tool = "add_item_to_project"
            /\ ~Truthy(params, "projectId")
            /\ Ended
            /\ result.state = "success")
              => Len(requests) = 2 /\ LookupRequests = {1}

C11_Witness ==
    /\ tool = "add_item_to_project"
    /\ Supplied("projectId") /\ params.projectId = "b"
    /\ Supplied("organization") /\ params.organization = "a"
    /\ Truthy(params, "contentId")
    /\ ~Supplied("title")
    /\ Len(requests) = 1
    /\ requests[1].query = AddProjectItemMutation
    /\ requests[1].variables.input.projectId = "b"
    /\ Ended
    /\ result.state = "success"

=============================================================================
